---- MODULE Spec2Model ----
(***************************************************************************)
(* Model of src/src/StackedAutoencoders.py: the training loop of           *)
(* UnitAutoencoder.fit / StackedAutoencoders.fit, checkpoint save and      *)
(* restore, restore_and_eval, and StackBuilder.build_pretrained_stack.     *)
(*                                                                         *)
(* Tensor values are abstracted to naturals.  The framework's optimizer    *)
(* step is abstracted to "every variable moves to a new value" (+1); the   *)
(* random initializer to a draw from InitDraws.  Distinct variables start  *)
(* in disjoint ranges (Stride apart) so that a mix-up of variables shows.  *)
(* Validation losses are drawn from a small set by the action that runs a  *)
(* checkpoint.  NaN losses are not modelled.                               *)
(***************************************************************************)
EXTENDS Integers, Sequences, FiniteSets, TLC

\* ------------------------------------------------------------------ bounds
MaxEpochs == 3
MaxTrain == 2
MaxBatchSize == 2
MaxCheckpointSteps == 2
MaxSteps == 3
MaxLoss == 2
MaxInit == 0
MaxOps == 3
MaxStackCalls == 1
MaxVarlist == 1
MaxLayers == 2
Stride == 10

\* ------------------------------------------------------- program constants
InitialBestLoss == 100000
InitialModelStep == -1

\* ------------------------------------------------------------------ values
\* Python's None / a value: modelled as the empty / one-element sequence.
None == << >>
Some(x) == << x >>
IsNone(x) == x = << >>
The(x) == x[1]

\* unit_name = "Unit_{}".format(hidden_layer); the stack's name.
UnitName(i) == << "Unit", i >>
Units == { UnitName(i) : i \in 0 .. (MaxLayers - 1) }
StackName == << "Stack", 0 >>
Objects == Units \cup { StackName }

\* Model files: os.path.join(unit_cache_dir, "{}.model".format(unit_name)), the
\* preceding_unit_model_paths the caller passes, and self.stack_model_path.
CachePath(i) == << "cache/Unit/Unit.model", i >>
PrecedingPath(i) == << "preceding.model", i >>
StackPath == << "cache/stack/Stack.model", 0 >>
UnitPaths == { CachePath(i) : i \in 0 .. (MaxLayers - 1) }
Paths == UnitPaths \cup { PrecedingPath(i) : i \in 0 .. (MaxLayers - 1) } \cup { StackPath }

\* Names of the trainable variables of a unit's graph: tf.layers.dense(...,
\* name="{}_hidden") and name="{}_outputs" create <name>/kernel:0 and <name>/bias:0.
UnitVarNames(name) ==
  { <<name, "_hidden/kernel:0">>, <<name, "_hidden/bias:0">>,
    <<name, "_outputs/kernel:0">>, <<name, "_outputs/bias:0">> }

\* Names of the variables of the stack's graph: tf.Variable(..., name="weights") and
\* name="biases" under tf.name_scope("{}_hidden_{}".format(self.name, idx)), and
\* tf.get_variable under tf.variable_scope("{}_softmax_outputs".format(self.name)).
LayerName(i) == << "Stack_hidden", i >>
SoftmaxName == << "Stack_softmax_outputs", 0 >>
StackVarNames(n) ==
  UNION { { << LayerName(i), "/weights:0" >>, << LayerName(i), "/biases:0" >> } :
          i \in 0 .. (n - 1) }
    \cup { << SoftmaxName, "/weights:0" >>, << SoftmaxName, "/biases:0" >> }

\* Range of the initial value of each variable: the four variables of unit i take
\* ranges 4i .. 4i+3, the softmax weights the range after those of the units.
Offset(k) ==
  IF k[1] = SoftmaxName THEN 4 * MaxLayers * Stride
  ELSE CASE k[2] = "_hidden/kernel:0" -> (4 * k[1][2]) * Stride
         [] k[2] = "_hidden/bias:0" -> (4 * k[1][2] + 1) * Stride
         [] k[2] = "_outputs/kernel:0" -> (4 * k[1][2] + 2) * Stride
         [] k[2] = "_outputs/bias:0" -> (4 * k[1][2] + 3) * Stride

InitDraws == 0 .. MaxInit

\* self.init.run() on a unit's graph: every variable takes its initializer's value.
UnitInitRun(name, r) == [ k \in UnitVarNames(name) |-> Offset(k) + r ]

\* self.init.run() on the stack's graph: a hidden layer's variables take the initial
\* values they were created with, the softmax weights their initializer's value, the
\* softmax biases zero (tf.zeros_initializer).
StackInitRun(layers, r) ==
  [ k \in StackVarNames(Len(layers)) |->
      IF k[1] = SoftmaxName
        THEN IF k[2] = "/weights:0" THEN Offset(k) + r ELSE 0
        ELSE IF k[2] = "/weights:0" THEN layers[k[1][2] + 1].weights
                                   ELSE layers[k[1][2] + 1].biases ]

\* sess.run(self.training_op, ...): one optimizer step on every trainable variable.
TrainStep(store) == [ k \in DOMAIN store |-> store[k] + 1 ]

\* The validation losses a checkpoint may measure.
LossVals == (1 .. MaxLoss) \cup { InitialBestLoss }

\* ------------------------------------------------------------------- state
VARIABLES
  files,            \* model_path -> None | Some(checkpointed variable values)
  stopFiles,        \* objects whose stop file exists (os.path.exists(self.stop_file_path))
  params,           \* self.params of each object: None | Some(values)
  initial_params,   \* self.initial_params of each object
  train_summaries,  \* steps written to self.train_file_writer in the current fit
  valid_summaries,  \* steps written to self.valid_file_writer in the current fit
  \* the frame of the fit call in progress
  pc,               \* "idle" | "epoch" | "batch" | "after" | "returned" | "raised"
  self,             \* the object fit was called on
  args,             \* fit's arguments (batch_size already defaulted, line 175)
  sess,             \* the variable values held by the tf.Session of the call
  epoch, batch_idx, n_batches,
  best_loss_on_valid_set, model_step, stop,
  ret,              \* the returned (model_step, all_steps), or the raised error
  \* history of the current call (observers only; no action reads them)
  afterUpdate,      \* values right after each training update, in order
  ckpts,            \* one record per checkpoint executed: step, loss, saved
  stopChecks,       \* steps at which the stop file was looked for
  stopHeldFrom,     \* Some(e): the stop file exists since the start of epoch e
  \* the calls made on the objects
  call,             \* the last call started: op, obj, path, varlist, before, result
  restored,         \* objects whose self.params come from a restore
  ops,              \* number of calls the user made
  \* the stack's graph
  stack_layers,     \* initial values of the hidden layers' variables, in layer order
  stacked_units,    \* self.stacked_units
  \* the units' graphs
  noise_stddev,     \* the constructor's noise_stddev: None | Some(stddev)
  input_dropout_rate, \* the constructor's input_dropout_rate: None | Some(rate)
  \* the frame of build_pretrained_stack
  bpc,              \* "idle" | "layer" | "fitting" | "stacked" | "done" | "raised"
  cfg,              \* the builder's configuration and the call's arguments
  hidden_layer,     \* the loop variable of line 821
  unit_model_paths, \* self.unit_model_paths
  units             \* self.units

fitFrame == << pc, self, args, sess, epoch, batch_idx, n_batches,
               best_loss_on_valid_set, model_step, stop, ret >>
fitHistory == << afterUpdate, ckpts, stopChecks, stopHeldFrom >>
summaries == << train_summaries, valid_summaries >>
objects == << params, initial_params >>
calls == << call, restored >>
graph == << stack_layers, stacked_units, noise_stddev, input_dropout_rate >>
buildFrame == << bpc, cfg, hidden_layer, unit_model_paths, units >>
builder == << graph, buildFrame >>
vars == << files, stopFiles, objects, summaries, fitFrame, fitHistory, calls, ops,
           builder >>

NoArgs == [ n_epochs |-> 0, batch_size |-> 0, n_train |-> 0, checkpoint_steps |-> 1,
            save_best_only |-> TRUE, model_path |-> CachePath(0) ]

NoBuild == [ n_hidden_layers |-> 0, n_preceding |-> 0,
             pretrained_weight_initialization |-> TRUE, restore_stack_model |-> FALSE ]

\* A call: what was called on which object with which arguments, self.params before
\* it, the value it returned or the error it raised, and the session runs it made.
NoCall == [ op |-> "none", obj |-> UnitName(0), path |-> CachePath(0), varlist |-> << >>,
            before |-> None, result |-> << >>, raised |-> None, runs |-> {} ]

\* lines 79-86: what the hidden layer reads in a run of object o fed with training.
\* The stack is explored without input dropout.
XNoisy(o, training) ==
  IF o = StackName THEN "X"
  ELSE IF ~IsNone(noise_stddev) THEN (IF training THEN "X + random_normal" ELSE "X")
  ELSE IF ~IsNone(input_dropout_rate) THEN (IF training THEN "dropout(X)" ELSE "X")
  ELSE "X"

\* line 95: what reconstruction_loss compares self.outputs with.
ReconstructionTarget == "X"

\* A feed that sets training in every run.
TrainingFedAlways(fetch) == TRUE

\* The value of the training placeholder in a run: True is fed with training_op
\* (lines 190, 624); every other feed_dict leaves it at its default False (line 79).
TrainingFed(fetch) == fetch = "training_op"

\* One sess.run of object o: what is fetched, the value of training, the input the
\* hidden layer reads and the target of the reconstruction loss.
SessionRun(o, fetch) ==
  [ fetch |-> fetch, training |-> TrainingFed(fetch),
    input |-> XNoisy(o, TrainingFed(fetch)), target |-> ReconstructionTarget ]

NoFitInProgress == pc \in {"idle", "returned", "raised"}

\* ---------------------------------------------------------------- fit
\* The arguments a call of fit may be given.
AllFitInputs ==
  [ n_epochs : 0 .. MaxEpochs,
    batch_size : { None } \cup { Some(b) : b \in 1 .. MaxBatchSize },
    n_train : 0 .. MaxTrain,
    checkpoint_steps : 1 .. MaxCheckpointSteps,
    save_best_only : BOOLEAN,
    model_path : { CachePath(0) } ]

\* line 175-176: if batch_size is None: batch_size = len(X_train)
DefaultBatchSize(batch_size, n_train) ==
  IF IsNone(batch_size) THEN n_train ELSE The(batch_size)

\* The number of training steps a call runs if it is not stopped.
TotalSteps(a) ==
  LET bs == DefaultBatchSize(a.batch_size, a.n_train)
  IN IF bs = 0 THEN 0 ELSE a.n_epochs * (a.n_train \div bs)

FitInputs == { a \in AllFitInputs : TotalSteps(a) <= MaxSteps }

\* self.init.run() on the graph of object o.
InitRun(o, r) == IF o = StackName THEN StackInitRun(stack_layers, r) ELSE UnitInitRun(o, r)

\* The variables of the graph of object o.
GraphVars(o) == IF o = StackName THEN StackVarNames(Len(stack_layers)) ELSE UnitVarNames(o)

\* fit, lines 171-182 (613-615): open a session, run the initializer (r is what the
\* random initializers draw), record initial_params, set best_loss_on_valid_set,
\* model_step and stop.
FitCall(o, a, r) ==
  /\ NoFitInProgress
  /\ sess' = Some(InitRun(o, r))
  /\ initial_params' = [ initial_params EXCEPT ![o] = Some(InitRun(o, r)) ]
  /\ self' = o
  /\ args' = [ a EXCEPT !.batch_size = DefaultBatchSize(a.batch_size, a.n_train) ]
  /\ best_loss_on_valid_set' = InitialBestLoss
  /\ model_step' = InitialModelStep
  /\ stop' = FALSE
  /\ epoch' = 0
  /\ batch_idx' = 0
  /\ n_batches' = None
  /\ ret' = None
  /\ pc' = "epoch"
  /\ afterUpdate' = << >>
  /\ ckpts' = << >>
  /\ stopChecks' = {}
  /\ stopHeldFrom' = None
  /\ train_summaries' = {}
  /\ valid_summaries' = {}
  /\ call' = [ NoCall EXCEPT !.op = "fit", !.obj = o, !.path = a.model_path,
                             !.before = params[o] ]
  /\ UNCHANGED << files, stopFiles, params, restored >>

\* line 183-186: for epoch in range(n_epochs): n_batches = len(X_train) // batch_size
EpochBegin ==
  /\ pc = "epoch"
  /\ IF epoch < args.n_epochs
       THEN IF args.batch_size = 0
              THEN /\ pc' = "raised"
                   /\ ret' = Some("ZeroDivisionError")
                   /\ sess' = None
                   /\ UNCHANGED << n_batches, batch_idx, stopHeldFrom >>
              ELSE /\ n_batches' = Some(args.n_train \div args.batch_size)
                   /\ batch_idx' = 0
                   /\ pc' = "batch"
                   /\ stopHeldFrom' = IF self \in stopFiles /\ IsNone(stopHeldFrom)
                                        THEN Some(epoch) ELSE stopHeldFrom
                   /\ UNCHANGED << ret, sess >>
       ELSE /\ pc' = "after"
            /\ UNCHANGED << n_batches, batch_idx, stopHeldFrom, ret, sess >>
  /\ UNCHANGED << files, stopFiles, objects, summaries, self, args, epoch,
                  best_loss_on_valid_set, model_step, stop,
                  afterUpdate, ckpts, stopChecks, calls, ops, builder >>

\* A step counter that forgets the epochs already run.
StepOfBatchOnly(ep, nb, bi) == bi

\* line 191: step = epoch * n_batches + batch_idx
StepOf(ep, nb, bi) == ep * nb + bi

\* line 192: if step % checkpoint_steps == 0
IsCheckpoint(step, checkpoint_steps) == step % checkpoint_steps = 0

\* A save decision that also saves on a tie with the running best.
ModelToSaveOnTie(save_best_only, loss, best) == (~save_best_only) \/ (loss <= best)

\* line 197: model_to_save = (not save_best_only) or (loss < best)
ModelToSave(save_best_only, loss, best) == (~save_best_only) \/ (loss < best)

\* A running best that is never updated.
NewBestStale(loss, best) == best

\* line 198-199: if loss < best: best = loss
NewBest(loss, best) == IF loss < best THEN loss ELSE best

\* lines 187-206: one iteration of the batch loop; loss is the validation loss the
\* session measures if this step is a checkpoint.
TrainBatch(loss) ==
  /\ pc = "batch"
  /\ batch_idx < The(n_batches)
  /\ LET trained == TrainStep(The(sess))
         step == StepOf(epoch, The(n_batches), batch_idx)
     IN /\ sess' = Some(trained)
        /\ afterUpdate' = Append(afterUpdate, trained)
        /\ call' = [ call EXCEPT !.runs =
                       @ \cup { SessionRun(self, "training_op") }
                         \cup IF IsCheckpoint(step, args.checkpoint_steps)
                                THEN { SessionRun(self, "summary"),
                                       SessionRun(self, "loss_on_valid_set") }
                                ELSE {} ]
        /\ IF IsCheckpoint(step, args.checkpoint_steps)
             THEN LET model_to_save ==
                        ModelToSave(args.save_best_only, loss, best_loss_on_valid_set)
                  IN /\ train_summaries' = train_summaries \cup {step}
                     /\ valid_summaries' = valid_summaries \cup {step}
                     /\ best_loss_on_valid_set' = NewBest(loss, best_loss_on_valid_set)
                     /\ IF model_to_save
                          THEN /\ files' = [ files EXCEPT ![args.model_path] = Some(trained) ]
                               /\ model_step' = step
                          ELSE UNCHANGED << files, model_step >>
                     /\ ckpts' = Append(ckpts, [ step |-> step, loss |-> loss,
                                                 saved |-> model_to_save ])
                     /\ stopChecks' = stopChecks \cup {step}
                     /\ stop' = (stop \/ self \in stopFiles)
             ELSE UNCHANGED << summaries, best_loss_on_valid_set, files, model_step,
                               ckpts, stopChecks, stop >>
  /\ batch_idx' = batch_idx + 1
  /\ UNCHANGED << stopFiles, objects, pc, self, args, epoch, n_batches, ret,
                  stopHeldFrom, restored, ops, builder >>

\* lines 207-209 and the loop header: break if stop, else the next epoch.
EpochEnd ==
  /\ pc = "batch"
  /\ batch_idx = The(n_batches)
  /\ IF stop
       THEN pc' = "after" /\ UNCHANGED epoch
       ELSE pc' = "epoch" /\ epoch' = epoch + 1
  /\ UNCHANGED << files, stopFiles, objects, summaries, self, args, sess, batch_idx,
                  n_batches, best_loss_on_valid_set, model_step, stop, ret, fitHistory,
                  calls, ops, builder >>

\* lines 210-215: self.params, close the writers, the assertion, the return value.
FitEnd ==
  /\ pc = "after"
  /\ params' = [ params EXCEPT ![self] = sess ]
  /\ sess' = None
  /\ IF model_step >= 0
       THEN /\ pc' = "returned"
            /\ ret' = Some(<< model_step, args.n_epochs * The(n_batches) >>)
       ELSE /\ pc' = "raised"
            /\ ret' = Some("AssertionError")
  /\ restored' = restored \ { self }
  /\ UNCHANGED << files, stopFiles, initial_params, summaries, self, args, epoch,
                  batch_idx, n_batches, best_loss_on_valid_set, model_step, stop,
                  fitHistory, call, ops, builder >>

\* The user creates / removes the stop file of an object.
CreateStopFile(o) ==
  /\ o \notin stopFiles
  /\ stopFiles' = stopFiles \cup {o}
  /\ UNCHANGED << files, objects, summaries, fitFrame, fitHistory, calls, ops, builder >>

RemoveStopFile(o) ==
  /\ o \in stopFiles
  /\ stopFiles' = stopFiles \ {o}
  /\ stopHeldFrom' = IF o = self THEN None ELSE stopHeldFrom
  /\ UNCHANGED << files, objects, summaries, fitFrame,
                  afterUpdate, ckpts, stopChecks, calls, ops, builder >>

\* ------------------------------------------------------ specification: fit
\* The state after the objects are constructed, before any call.
Constructed ==
  /\ stopFiles = {}
  /\ params = [ o \in Objects |-> None ]
  /\ initial_params = [ o \in Objects |-> None ]
  /\ train_summaries = {}
  /\ valid_summaries = {}
  /\ pc = "idle"
  /\ self = UnitName(0)
  /\ args = NoArgs
  /\ sess = None
  /\ epoch = 0
  /\ batch_idx = 0
  /\ n_batches = None
  /\ best_loss_on_valid_set = InitialBestLoss
  /\ model_step = InitialModelStep
  /\ stop = FALSE
  /\ ret = None
  /\ afterUpdate = << >>
  /\ ckpts = << >>
  /\ stopChecks = {}
  /\ stopHeldFrom = None
  /\ call = NoCall
  /\ restored = {}
  /\ ops = 0
  /\ stack_layers = << >>
  /\ stacked_units = << >>
  /\ bpc = "idle"
  /\ hidden_layer = 0
  /\ unit_model_paths = << >>
  /\ units = << >>

\* lines 25-26: units constructed with the defaults noise_stddev = None and
\* input_dropout_rate = None.
PlainUnits ==
  /\ noise_stddev = None
  /\ input_dropout_rate = None

InitFit ==
  /\ files = [ p \in Paths |-> None ]
  /\ cfg = NoBuild
  /\ PlainUnits
  /\ Constructed

NextFit ==
  \/ \E a \in FitInputs, r \in InitDraws :
       pc = "idle" /\ FitCall(UnitName(0), a, r) /\ UNCHANGED << ops, builder >>
  \/ EpochBegin
  \/ \E loss \in LossVals : TrainBatch(loss)
  \/ EpochEnd
  \/ FitEnd
  \/ CreateStopFile(UnitName(0))
  \/ RemoveStopFile(UnitName(0))

SpecFit == InitFit /\ [][NextFit]_vars

\* ------------------------------------------------- save, restore, evaluate
\* The tensors restore_and_eval of a unit runs for varlist, in order (lines 327-337);
\* a name it does not know is passed over.
RECURSIVE UnitVarsToEval(_)
UnitVarsToEval(varlist) ==
  IF varlist = << >> THEN << >>
  ELSE LET var == Head(varlist)
           rest == UnitVarsToEval(Tail(varlist))
       IN CASE var = "loss" -> << "loss" >> \o rest
            [] var = "reconstruction_loss" -> << "reconstruction_loss" >> \o rest
            [] var = "hidden_outputs" -> << "hidden" >> \o rest
            [] var = "outputs" -> << "outputs" >> \o rest
            [] OTHER -> rest

\* varmap, lines 322-325: the tensor each name stands for.
UnitVarmap ==
  [ n \in { "loss", "reconstruction_loss", "hidden_outputs", "outputs" } |->
      CASE n = "loss" -> "loss"
        [] n = "reconstruction_loss" -> "reconstruction_loss"
        [] n = "hidden_outputs" -> "hidden"
        [] n = "outputs" -> "outputs" ]

\* sess.run(vars_to_eval, feed_dict): one value per tensor, computed with the variable
\* values the session holds.
SessRun(vars_to_eval, store) ==
  [ i \in 1 .. Len(vars_to_eval) |-> [ tensor |-> vars_to_eval[i], values |-> store ] ]

\* saver.restore(sess, model_path) succeeds if the file exists and holds the variables
\* of the graph; it raises otherwise.
CanRestore(vars_of_graph, path) ==
  /\ ~IsNone(files[path])
  /\ DOMAIN The(files[path]) = vars_of_graph

\* A restore that keeps the values the object already holds.
RestoredParamsKeepOld(old, checkpoint) == IF IsNone(old) THEN checkpoint ELSE old

\* lines 272-273: saver.restore; self.params = the values of the trainable variables.
RestoredParams(old, checkpoint) == checkpoint

\* UnitAutoencoder.save_untrained_model, lines 146-154.
SaveUntrainedModel(o, path, r) ==
  /\ NoFitInProgress
  /\ initial_params' = [ initial_params EXCEPT ![o] = Some(UnitInitRun(o, r)) ]
  /\ files' = [ files EXCEPT ![path] = Some(UnitInitRun(o, r)) ]
  /\ call' = [ NoCall EXCEPT !.op = "save_untrained_model", !.obj = o, !.path = path,
                             !.before = params[o] ]
  /\ UNCHANGED << stopFiles, params, summaries, fitFrame, fitHistory, restored >>

\* UnitAutoencoder.restore, lines 257-273.
Restore(o, path) ==
  /\ NoFitInProgress
  /\ CanRestore(UnitVarNames(o), path)
  /\ params' = [ params EXCEPT ![o] = RestoredParams(params[o], files[path]) ]
  /\ restored' = restored \cup { o }
  /\ call' = [ NoCall EXCEPT !.op = "restore", !.obj = o, !.path = path,
                             !.before = params[o] ]
  /\ UNCHANGED << files, stopFiles, initial_params, summaries, fitFrame, fitHistory >>

\* UnitAutoencoder.restore_and_eval, lines 307-338.
RestoreAndEval(o, path, varlist) ==
  /\ NoFitInProgress
  /\ CanRestore(UnitVarNames(o), path)
  /\ params' = [ params EXCEPT ![o] = RestoredParams(params[o], files[path]) ]
  /\ restored' = restored \cup { o }
  /\ call' = [ NoCall EXCEPT !.op = "restore_and_eval", !.obj = o, !.path = path,
                             !.varlist = varlist, !.before = params[o],
                             !.result = SessRun(UnitVarsToEval(varlist), The(files[path])),
                             !.runs = { SessionRun(o, "restore_and_eval") } ]
  /\ UNCHANGED << files, stopFiles, initial_params, summaries, fitFrame, fitHistory >>

\* A tf.Session just opened on the graph: no variable holds a value.
NewSession == None

\* sess.run(vars_to_eval, ...) in a session where the variables may be uninitialized:
\* fetching a tensor that reads a variable without a value raises
\* FailedPreconditionError; fetching nothing returns the empty list.
SessRunOrRaise(vars_to_eval, session) ==
  IF vars_to_eval = << >> THEN [ result |-> << >>, raised |-> None ]
  ELSE IF IsNone(session)
         THEN [ result |-> << >>, raised |-> Some("FailedPreconditionError") ]
         ELSE [ result |-> SessRun(vars_to_eval, The(session)), raised |-> None ]

\* UnitAutoencoder.eval, lines 275-305: the assertion on self.params, a new session
\* in which nothing is initialized or restored, the loop over varlist (ValueError for
\* a name it does not know), sess.run.
Eval(o, varlist) ==
  /\ NoFitInProgress
  /\ LET known == \A i \in DOMAIN varlist : varlist[i] \in DOMAIN UnitVarmap
         out == SessRunOrRaise(UnitVarsToEval(varlist), NewSession)
     IN call' = [ NoCall EXCEPT
                    !.op = "eval", !.obj = o, !.varlist = varlist, !.before = params[o],
                    !.result = IF IsNone(params[o]) \/ ~known THEN << >> ELSE out.result,
                    !.raised = IF IsNone(params[o]) THEN Some("AssertionError")
                               ELSE IF ~known THEN Some("ValueError")
                               ELSE out.raised,
                    !.runs = IF IsNone(params[o]) \/ ~known \/ varlist = << >> THEN {}
                             ELSE { SessionRun(o, "eval") } ]
  /\ UNCHANGED << files, stopFiles, objects, summaries, fitFrame, fitHistory, restored >>

\* self.params[key], after the assertion that self.params is not None: the value, or
\* the error raised (KeyError for a key the dictionary does not hold).
ParamsLookup(o, key) ==
  IF IsNone(params[o]) THEN [ result |-> << >>, raised |-> Some("AssertionError") ]
  ELSE IF key \notin DOMAIN The(params[o])
         THEN [ result |-> << >>, raised |-> Some("KeyError") ]
         ELSE [ result |-> << The(params[o])[key] >>, raised |-> None ]

\* UnitAutoencoder.output_weights, lines 243-248: the key is
\* "{}_output/kernel:0".format(self.name).
OutputWeights(o) ==
  /\ NoFitInProgress
  /\ LET out == ParamsLookup(o, << o, "_output/kernel:0" >>)
     IN call' = [ NoCall EXCEPT !.op = "output_weights", !.obj = o, !.before = params[o],
                                !.result = out.result, !.raised = out.raised ]
  /\ UNCHANGED << files, stopFiles, objects, summaries, fitFrame, fitHistory, restored >>

\* UnitAutoencoder.output_biases, lines 250-255: the key is
\* "{}_output/bias:0".format(self.name).
OutputBiases(o) ==
  /\ NoFitInProgress
  /\ LET out == ParamsLookup(o, << o, "_output/bias:0" >>)
     IN call' = [ NoCall EXCEPT !.op = "output_biases", !.obj = o, !.before = params[o],
                                !.result = out.result, !.raised = out.raised ]
  /\ UNCHANGED << files, stopFiles, objects, summaries, fitFrame, fitHistory, restored >>

\* The names a caller may list: the documented ones (lines 313, 657) and "codings",
\* which get_codings passes (line 704).
DocumentedNames == { "loss", "reconstruction_loss", "hidden_outputs", "outputs" }
VarNames == DocumentedNames \cup { "codings" }
VarLists == UNION { [ 1 .. n -> VarNames ] : n \in 0 .. MaxVarlist }

\* -------------------------------------------- specification: one unit's life
\* The model files the unit is saved to and restored from.
LifePaths == { CachePath(0), PrecedingPath(0) }

\* The fit calls made on the unit: one epoch of one or two batches.
UnitFitInputs ==
  [ n_epochs : { 1 },
    batch_size : { Some(1) },
    n_train : { 1, 2 },
    checkpoint_steps : { 1 },
    save_best_only : BOOLEAN,
    model_path : LifePaths ]

\* The varlists the callers of this file pass (lines 870, 890, 1035, 1052).
CallerVarLists ==
  { << "outputs" >>, << "reconstruction_loss", "hidden_outputs" >>,
    << "reconstruction_loss", "outputs" >>, << "reconstruction_loss" >> }

InitUnit ==
  /\ files = [ p \in Paths |-> None ]
  /\ cfg = NoBuild
  /\ PlainUnits
  /\ Constructed

\* A call the user makes, counted against the number of calls explored.
UserCall ==
  /\ ops < MaxOps
  /\ ops' = ops + 1
  /\ UNCHANGED builder

NextUnit ==
  \/ \E a \in UnitFitInputs, r \in InitDraws : FitCall(UnitName(0), a, r) /\ UserCall
  \/ EpochBegin
  \/ \E loss \in 1 .. MaxLoss : TrainBatch(loss)
  \/ EpochEnd
  \/ FitEnd
  \/ \E p \in LifePaths, r \in InitDraws : SaveUntrainedModel(UnitName(0), p, r) /\ UserCall
  \/ \E p \in LifePaths : Restore(UnitName(0), p) /\ UserCall
  \/ \E p \in LifePaths, vl \in CallerVarLists :
       RestoreAndEval(UnitName(0), p, vl) /\ UserCall

SpecUnit == InitUnit /\ [][NextUnit]_vars

\* ------------------------------------- specification: a denoising unit in use
\* lines 25-26, 80-86: the unit is constructed with or without noise_stddev and
\* input_dropout_rate.
InitUse ==
  /\ files = [ p \in Paths |-> None ]
  /\ cfg = NoBuild
  /\ noise_stddev \in { None, Some(1) }
  /\ input_dropout_rate \in { None, Some(1) }
  /\ Constructed

\* The fit calls made on the unit: one epoch of two batches, every step or every
\* second step a checkpoint.
UseFitInputs ==
  [ n_epochs : { 1 },
    batch_size : { Some(1) },
    n_train : { 2 },
    checkpoint_steps : { 1, 2 },
    save_best_only : { FALSE },
    model_path : { CachePath(0) } ]

NextUse ==
  \/ \E a \in UseFitInputs, r \in InitDraws : FitCall(UnitName(0), a, r) /\ UserCall
  \/ EpochBegin
  \/ TrainBatch(1)
  \/ EpochEnd
  \/ FitEnd
  \/ Restore(UnitName(0), CachePath(0)) /\ UserCall
  \/ \E vl \in CallerVarLists : RestoreAndEval(UnitName(0), CachePath(0), vl) /\ UserCall
  \/ \E vl \in VarLists : Eval(UnitName(0), vl) /\ UserCall
  \/ OutputWeights(UnitName(0)) /\ UserCall
  \/ OutputBiases(UnitName(0)) /\ UserCall

SpecUse == InitUse /\ [][NextUse]_vars

\* -------------------------------------------------------------- the stack
\* UnitAutoencoder.output_weights as a reader of the hidden kernel's neighbour.
HiddenWeightsFromOutputLayer(o) == The(params[o])[<< o, "_outputs/kernel:0" >>]

\* UnitAutoencoder.hidden_weights, lines 217-228.
HiddenWeights(o) == The(params[o])[<< o, "_hidden/kernel:0" >>]

\* UnitAutoencoder.hidden_biases, lines 230-241.
HiddenBiases(o) == The(params[o])[<< o, "_hidden/bias:0" >>]

\* StackedAutoencoders._add_hidden_layer, lines 404-410: the new layer's variables are
\* created with the unit's hidden weights and biases as initial values.
AddHiddenLayer(unit) == [ weights |-> HiddenWeights(unit), biases |-> HiddenBiases(unit) ]

\* The tensors restore_and_eval of the stack runs for varlist, in order (lines
\* 677-690); a name it does not know is passed over.  y is taken to be given with
\* len(y) = len(X), so that the assertion of line 687 passes.
RECURSIVE StackVarsToEval(_)
StackVarsToEval(varlist) ==
  IF varlist = << >> THEN << >>
  ELSE LET var == Head(varlist)
           rest == StackVarsToEval(Tail(varlist))
       IN CASE var = "loss" -> << "loss" >> \o rest
            [] var = "codings" -> << "encoders[-1]" >> \o rest
            [] var = "outputs" -> << "outputs" >> \o rest
            [] var = "accuracy" -> << "accuracy" >> \o rest
            [] var = "correct_prediction" -> << "correct" >> \o rest
            [] OTHER -> rest

\* varmap, lines 673-676: the tensor each name stands for.
StackVarmap ==
  [ n \in { "loss", "hidden_outputs", "outputs", "accuracy" } |->
      CASE n = "loss" -> "loss"
        [] n = "hidden_outputs" -> "hidden[-1]"
        [] n = "outputs" -> "outputs"
        [] n = "accuracy" -> "accuracy" ]

\* StackedAutoencoders.restore, lines 574-582.
StackRestore(path) ==
  /\ NoFitInProgress
  /\ bpc = "done"
  /\ CanRestore(GraphVars(StackName), path)
  /\ params' = [ params EXCEPT ![StackName] = RestoredParams(params[StackName], files[path]) ]
  /\ initial_params' = [ initial_params EXCEPT ![StackName] = Some(<< >>) ]
  /\ restored' = restored \cup { StackName }
  /\ call' = [ NoCall EXCEPT !.op = "restore", !.obj = StackName, !.path = path,
                             !.before = params[StackName] ]
  /\ UNCHANGED << files, stopFiles, summaries, fitFrame, fitHistory >>

\* StackedAutoencoders.restore_and_eval, lines 651-692.
StackRestoreAndEval(path, varlist) ==
  /\ NoFitInProgress
  /\ bpc = "done"
  /\ CanRestore(GraphVars(StackName), path)
  /\ params' = [ params EXCEPT ![StackName] = RestoredParams(params[StackName], files[path]) ]
  /\ restored' = restored \cup { StackName }
  /\ call' = [ NoCall EXCEPT !.op = "restore_and_eval", !.obj = StackName, !.path = path,
                             !.varlist = varlist, !.before = params[StackName],
                             !.result = IF varlist = << >> THEN << >>
                                        ELSE SessRun(StackVarsToEval(varlist),
                                                     The(files[path])),
                             !.runs = IF varlist = << >> THEN {}
                                      ELSE { SessionRun(StackName, "restore_and_eval") } ]
  /\ UNCHANGED << files, stopFiles, initial_params, summaries, fitFrame, fitHistory >>

\* ------------------------------------------------- build_pretrained_stack
\* line 850: the model file of the unit of a hidden layer.
UnitModelPath(c, layer) ==
  IF layer < c.n_preceding THEN PrecedingPath(layer) ELSE CachePath(layer)

\* lines 854-860: the arguments of the unit's fit; the call is explored with one
\* epoch of two batches of one sample and a checkpoint at every step.
BuildFitArgs(c, layer) ==
  [ n_epochs |-> 1, batch_size |-> Some(1), n_train |-> 2, checkpoint_steps |-> 1,
    save_best_only |-> TRUE, model_path |-> UnitModelPath(c, layer) ]

\* StackBuilder.__init__, lines 755-789: the builders explored.
Builders ==
  { c \in [ n_hidden_layers : 1 .. MaxLayers,
            n_preceding : 0 .. MaxLayers,
            pretrained_weight_initialization : { TRUE },
            restore_stack_model : { FALSE } ] : c.n_preceding <= c.n_hidden_layers }

\* lines 802-820: the call, up to the loop over the hidden layers.
BuildCall(pretrained_weight_initialization, restore_stack_model) ==
  /\ bpc = "idle"
  /\ NoFitInProgress
  /\ cfg' = [ cfg EXCEPT !.pretrained_weight_initialization = pretrained_weight_initialization,
                         !.restore_stack_model = restore_stack_model ]
  /\ hidden_layer' = 0
  /\ unit_model_paths' = [ i \in 1 .. cfg.n_hidden_layers |-> None ]
  /\ units' = [ i \in 1 .. cfg.n_hidden_layers |-> None ]
  /\ bpc' = "layer"
  /\ UNCHANGED << files, stopFiles, objects, summaries, fitFrame, fitHistory, calls, ops,
                  graph >>

\* A call the user makes on the stack once it is built.
StackCall ==
  /\ bpc = "done"
  /\ ops < MaxStackCalls
  /\ ops' = ops + 1
  /\ UNCHANGED builder

\* The validation losses the units' fits are explored with.
BuildLossVals == { 1, InitialBestLoss }

\* What the random initializers draw in the runs of the builder explored.
BuildDraws == { 0 }

\* lines 886-892: the layer's unit and model path are recorded; the loop moves on.
LayerDone ==
  /\ unit_model_paths' = [ unit_model_paths EXCEPT ![hidden_layer + 1] =
                             Some(UnitModelPath(cfg, hidden_layer)) ]
  /\ units' = [ units EXCEPT ![hidden_layer + 1] = Some(UnitName(hidden_layer)) ]
  /\ hidden_layer' = hidden_layer + 1
  /\ bpc' = "layer"
  /\ UNCHANGED << cfg, graph, ops >>

\* lines 821-860: a layer whose model file is missing, pretrained: the unit is
\* constructed (its params are None) and fit is called on it.
BuildLayerTrain(r) ==
  /\ bpc = "layer"
  /\ hidden_layer < cfg.n_hidden_layers
  /\ IsNone(files[UnitModelPath(cfg, hidden_layer)])
  /\ cfg.pretrained_weight_initialization
  /\ FitCall(UnitName(hidden_layer), BuildFitArgs(cfg, hidden_layer), r)
  /\ bpc' = "fitting"
  /\ UNCHANGED << cfg, hidden_layer, unit_model_paths, units, graph, ops >>

\* lines 861-892: fit returned; the unit is restored from its model file and
\* evaluated (lines 870, 890, 891).
BuildLayerTrained ==
  /\ bpc = "fitting"
  /\ pc = "returned"
  /\ RestoreAndEval(UnitName(hidden_layer), UnitModelPath(cfg, hidden_layer),
                    << "reconstruction_loss", "hidden_outputs" >>)
  /\ LayerDone

\* fit raised: build_pretrained_stack does not catch it.
BuildLayerFitRaised ==
  /\ bpc = "fitting"
  /\ pc = "raised"
  /\ bpc' = "raised"
  /\ UNCHANGED << files, stopFiles, objects, summaries, fitFrame, fitHistory, calls, ops,
                  graph, cfg, hidden_layer, unit_model_paths, units >>

\* lines 863-892: a layer whose model file is missing, not pretrained:
\* save_untrained_model, then the unit is restored from the file and evaluated.
BuildLayerUntrained(r) ==
  /\ bpc = "layer"
  /\ hidden_layer < cfg.n_hidden_layers
  /\ IsNone(files[UnitModelPath(cfg, hidden_layer)])
  /\ ~cfg.pretrained_weight_initialization
  /\ NoFitInProgress
  /\ LET o == UnitName(hidden_layer)
         path == UnitModelPath(cfg, hidden_layer)
     IN /\ initial_params' = [ initial_params EXCEPT ![o] = Some(UnitInitRun(o, r)) ]
        /\ files' = [ files EXCEPT ![path] = Some(UnitInitRun(o, r)) ]
        /\ params' = [ params EXCEPT ![o] =
                         RestoredParams(params[o], Some(UnitInitRun(o, r))) ]
        /\ call' = [ NoCall EXCEPT
                       !.op = "restore_and_eval", !.obj = o, !.path = path,
                       !.varlist = << "reconstruction_loss", "hidden_outputs" >>,
                       !.before = params[o],
                       !.result = SessRun(UnitVarsToEval(<< "reconstruction_loss",
                                                            "hidden_outputs" >>),
                                          UnitInitRun(o, r)),
                       !.runs = { SessionRun(o, "restore_and_eval") } ]
        /\ restored' = restored \cup { o }
  /\ LayerDone
  /\ UNCHANGED << stopFiles, summaries, fitFrame, fitHistory >>

\* lines 881-892: a layer whose model file exists: the unit is restored from it and
\* evaluated.
BuildLayerReload ==
  /\ bpc = "layer"
  /\ hidden_layer < cfg.n_hidden_layers
  /\ ~IsNone(files[UnitModelPath(cfg, hidden_layer)])
  /\ RestoreAndEval(UnitName(hidden_layer), UnitModelPath(cfg, hidden_layer),
                    << "reconstruction_loss", "hidden_outputs" >>)
  /\ LayerDone

\* lines 894-922: the stack is constructed, one stack_encoder per unit in order, the
\* softmax output layer, finalize.
BuildStack ==
  /\ bpc = "layer"
  /\ hidden_layer = cfg.n_hidden_layers
  /\ stack_layers' = [ i \in 1 .. Len(units) |-> AddHiddenLayer(The(units[i])) ]
  /\ stacked_units' = [ i \in 1 .. Len(units) |-> The(units[i]) ]
  /\ bpc' = "stacked"
  /\ UNCHANGED << files, stopFiles, objects, summaries, fitFrame, fitHistory, calls, ops,
                  cfg, hidden_layer, unit_model_paths, units, noise_stddev,
                  input_dropout_rate >>

\* lines 923-926 and StackedAutoencoders.save, lines 566-572: run the initializer and
\* save the stack model.
BuildSaveStack(r) ==
  /\ bpc = "stacked"
  /\ ~cfg.restore_stack_model
  /\ files' = [ files EXCEPT ![StackPath] = Some(StackInitRun(stack_layers, r)) ]
  /\ bpc' = "done"
  /\ UNCHANGED << stopFiles, objects, summaries, fitFrame, fitHistory, calls, ops,
                  graph, cfg, hidden_layer, unit_model_paths, units >>

\* lines 927-931 and StackedAutoencoders.restore: the stack model is restored.
BuildRestoreStack ==
  /\ bpc = "stacked"
  /\ cfg.restore_stack_model
  /\ CanRestore(StackVarNames(Len(stack_layers)), StackPath)
  /\ params' = [ params EXCEPT ![StackName] =
                   RestoredParams(params[StackName], files[StackPath]) ]
  /\ initial_params' = [ initial_params EXCEPT ![StackName] = Some(<< >>) ]
  /\ restored' = restored \cup { StackName }
  /\ call' = [ NoCall EXCEPT !.op = "restore", !.obj = StackName, !.path = StackPath,
                             !.before = params[StackName] ]
  /\ bpc' = "done"
  /\ UNCHANGED << files, stopFiles, summaries, fitFrame, fitHistory, ops,
                  graph, cfg, hidden_layer, unit_model_paths, units >>

\* line 928 or saver.restore raises: no stack model file, or one of another stack.
BuildRestoreStackRaised ==
  /\ bpc = "stacked"
  /\ cfg.restore_stack_model
  /\ ~CanRestore(StackVarNames(Len(stack_layers)), StackPath)
  /\ bpc' = "raised"
  /\ UNCHANGED << files, stopFiles, objects, summaries, fitFrame, fitHistory, calls, ops,
                  graph, cfg, hidden_layer, unit_model_paths, units >>

\* ----------------------------------------- specification: build and use
\* Model files an earlier run may have left behind.
PriorUnitCheckpoint(i) == TrainStep(UnitInitRun(UnitName(i), 0))
PriorStackCheckpoint(n) ==
  TrainStep(StackInitRun([ i \in 1 .. n |->
                             [ weights |-> PriorUnitCheckpoint(i - 1)[<< UnitName(i - 1), "_hidden/kernel:0" >>],
                               biases |-> PriorUnitCheckpoint(i - 1)[<< UnitName(i - 1), "_hidden/bias:0" >>] ] ],
                         0))

\* The files that exist when a builder is used: the model files of the units in
\* present, and the stack model of an earlier build, if any.
PriorFiles(c, present, stack_file) ==
  [ p \in Paths |->
      IF p = StackPath THEN stack_file
      ELSE IF \E i \in present : p = UnitModelPath(c, i)
             THEN Some(PriorUnitCheckpoint(CHOOSE i \in present : p = UnitModelPath(c, i)))
             ELSE None ]

InitBuild ==
  /\ Constructed
  /\ PlainUnits
  /\ \E c \in Builders :
       /\ cfg = c
       /\ \E present \in SUBSET (0 .. (c.n_hidden_layers - 1)),
             stack_file \in { None } \cup { Some(PriorStackCheckpoint(n)) : n \in 1 .. MaxLayers } :
            files = PriorFiles(c, present, stack_file)

\* The fit calls made on the stack after it is built.
StackFitInputs ==
  [ n_epochs : { 1 },
    batch_size : { Some(1) },
    n_train : { 1 },
    checkpoint_steps : { 1 },
    save_best_only : BOOLEAN,
    model_path : { StackPath } ]

NextBuild ==
  \/ \E pretrained \in BOOLEAN, restore \in BOOLEAN : BuildCall(pretrained, restore)
  \/ \E r \in BuildDraws : BuildLayerTrain(r)
  \/ BuildLayerTrained
  \/ BuildLayerFitRaised
  \/ \E r \in BuildDraws : BuildLayerUntrained(r)
  \/ BuildLayerReload
  \/ BuildStack
  \/ \E r \in BuildDraws : BuildSaveStack(r)
  \/ BuildRestoreStack
  \/ BuildRestoreStackRaised
  \/ EpochBegin
  \/ \E loss \in BuildLossVals : TrainBatch(loss)
  \/ EpochEnd
  \/ FitEnd
  \/ \E a \in StackFitInputs, r \in BuildDraws : FitCall(StackName, a, r) /\ StackCall
  \/ StackRestore(StackPath) /\ StackCall
  \/ \E vl \in VarLists : StackRestoreAndEval(StackPath, vl) /\ StackCall

SpecBuild == InitBuild /\ [][NextBuild]_vars

\* ------------------------------------------------------------ claims: fit
SetMin(S) == CHOOSE m \in S : \A x \in S : m <= x
SetMax(S) == CHOOSE m \in S : \A x \in S : m >= x

\* The validation losses of the checkpoints before the k-th one of the call.
EarlierLosses(k) == { ckpts[j].loss : j \in 1 .. (k - 1) }

SavedCkpts == { k \in DOMAIN ckpts : ckpts[k].saved }

\* The values the file at model_path holds after the checkpoints so far: those right
\* after the training update of the last checkpoint that saved.
FileHoldsLastSaved ==
  SavedCkpts # {} =>
    files[args.model_path] = Some(afterUpdate[ckpts[SetMax(SavedCkpts)].step + 1])

C1_SavedIffStrictlyLower ==
  (pc # "idle" /\ args.save_best_only) =>
    /\ \A k \in DOMAIN ckpts :
         ckpts[k].saved <=>
           \A l \in EarlierLosses(k) \cup { InitialBestLoss } : ckpts[k].loss < l
    /\ FileHoldsLastSaved
    /\ (SavedCkpts = {} => files[args.model_path] = None)

\* Within a call the running best does not go up.
BestNeverIncreases ==
  pc \in {"epoch", "batch", "after"} =>
    best_loss_on_valid_set' <= best_loss_on_valid_set

\* C1: with save_best_only, a checkpoint step saves the model to model_path iff its
\* validation loss is strictly lower than the loss of every earlier checkpoint step
\* of the call and than the initial running best 100000; the running best never
\* increases during a call.
C1_SaveBestOnly ==
  /\ [] C1_SavedIffStrictlyLower
  /\ [][BestNeverIncreases]_vars

\* A call with save_best_only that saved twice and skipped a checkpoint in between
\* or after.
C1_Witness ==
  /\ args.save_best_only
  /\ Cardinality(SavedCkpts) >= 2
  /\ \E k \in DOMAIN ckpts : ~ckpts[k].saved /\ ckpts[k].loss < InitialBestLoss

\* C2: when fit returns with save_best_only, the returned model_step is the earliest
\* checkpoint step whose validation loss is the minimum over the checkpoint steps of
\* the call, and the file at model_path holds the values right after the training
\* update of that step.
C2_ReturnedStepIsBest ==
  (pc = "returned" /\ args.save_best_only) =>
    LET losses == { ckpts[k].loss : k \in DOMAIN ckpts }
        best == { ckpts[k].step : k \in { j \in DOMAIN ckpts : ckpts[j].loss = SetMin(losses) } }
        returned_step == The(ret)[1]
    IN /\ ckpts # << >>
       /\ returned_step = SetMin(best)
       /\ files[args.model_path] = Some(afterUpdate[returned_step + 1])

\* A returned call whose best loss was first met after step 0 and met again later.
C2_Witness ==
  /\ pc = "returned"
  /\ args.save_best_only
  /\ The(ret)[1] > 0
  /\ \E k \in DOMAIN ckpts :
       /\ ckpts[k].step > The(ret)[1]
       /\ ckpts[k].loss = best_loss_on_valid_set

\* C6: every call of fit ends its training loop with model_step >= 0 (the assertion
\* of line 213 / 647 holds).
C6_AssertionHolds == pc = "after" => model_step >= 0

\* C7: if the stop file exists from the start of epoch e (e < n_epochs - 1) and is
\* not removed, no batch of epoch e + 1 is trained.
C7_StopFileStopsNextEpoch ==
  (~IsNone(stopHeldFrom) /\ pc = "batch" /\ batch_idx > 0) => epoch <= The(stopHeldFrom)

\* The steps among the training updates run so far that are multiples of
\* checkpoint_steps.
CadenceSteps ==
  { s \in 0 .. (Len(afterUpdate) - 1) : s % args.checkpoint_steps = 0 }

\* C8: the validation-loss evaluation, the summary logging, the save decision and the
\* stop-file check happen at exactly the training steps (counted from 0 over the
\* call) that are multiples of checkpoint_steps.
C8_CheckpointCadence ==
  pc # "idle" =>
    /\ train_summaries = CadenceSteps
    /\ valid_summaries = CadenceSteps
    /\ { ckpts[k].step : k \in DOMAIN ckpts } = CadenceSteps
    /\ Len(ckpts) = Cardinality(CadenceSteps)
    /\ stopChecks = CadenceSteps

\* A call in its second epoch or later with a checkpoint period of 2 that has run a
\* checkpoint after step 0 and a step that is none.
C8_Witness ==
  /\ args.checkpoint_steps = 2
  /\ epoch > 0
  /\ Len(afterUpdate) >= 3
  /\ Cardinality(valid_summaries) >= 2

\* ------------------------------------------- claims: save, restore, resume
\* C3: when fit is called on an object whose parameters were restored from a
\* checkpoint, training starts from the restored values: the session holds them when
\* the first training update runs.
C3_FitResumesFromRestored ==
  (pc \in {"epoch", "batch"} /\ afterUpdate = << >> /\ self \in restored) =>
    sess = params[self]

\* C4: right after restore(model_path) or restore_and_eval(.., model_path, ..) of a
\* unit, self.params equals the values stored in the checkpoint last saved at
\* model_path, whatever self.params held before.
C4_RestoreRoundTrip ==
  (call.op \in {"restore", "restore_and_eval"} /\ call.obj \in Units) =>
    /\ ~IsNone(files[call.path])
    /\ params[call.obj] = files[call.path]

\* A restore that replaced other values, which an earlier fit had left in self.params.
C4_Witness ==
  /\ call.op = "restore"
  /\ call.obj \in Units
  /\ ~IsNone(call.before)
  /\ call.before # params[call.obj]
  /\ ~IsNone(initial_params[call.obj])

\* --------------------------------------------------------- claims: stacking
\* C5: when build_pretrained_stack with restore_stack_model = False has saved the
\* stack model, hidden layer i of the stack (i = 0 .. n_hidden_layers - 1, in unit
\* order) was created with the hidden kernel and bias of unit i as stored in the
\* checkpoint at unit_model_paths[i], and the file at stack_model_path holds exactly
\* those values for the variables of every hidden layer.
C5_StackReusesUnitWeights ==
  (bpc = "done" /\ ~cfg.restore_stack_model /\ ops = 0) =>
    /\ Len(stack_layers) = cfg.n_hidden_layers
    /\ ~IsNone(files[StackPath])
    /\ DOMAIN The(files[StackPath]) = StackVarNames(cfg.n_hidden_layers)
    /\ \A i \in 0 .. (cfg.n_hidden_layers - 1) :
         LET checkpoint == The(files[The(unit_model_paths[i + 1])])
             kernel == checkpoint[<< UnitName(i), "_hidden/kernel:0" >>]
             bias == checkpoint[<< UnitName(i), "_hidden/bias:0" >>]
         IN /\ stack_layers[i + 1].weights = kernel
            /\ stack_layers[i + 1].biases = bias
            /\ The(files[StackPath])[<< LayerName(i), "/weights:0" >>] = kernel
            /\ The(files[StackPath])[<< LayerName(i), "/biases:0" >>] = bias

\* A stack of two layers just saved: unit 0 reloaded from a model file found on
\* disk, unit 1 trained by this build for two steps, the second one saved.
C5_Witness ==
  /\ bpc = "done"
  /\ ~cfg.restore_stack_model
  /\ ops = 0
  /\ cfg.n_hidden_layers = 2
  /\ cfg.pretrained_weight_initialization
  /\ IsNone(initial_params[UnitName(0)])
  /\ ~IsNone(initial_params[UnitName(1)])
  /\ The(files[StackPath])[<< LayerName(1), "/weights:0" >>]
       = The(initial_params[UnitName(1)])[<< UnitName(1), "_hidden/kernel:0" >>] + 2

\* ------------------------------------------------- claims: restore_and_eval
\* C9: restore_and_eval of a unit or of the stack, called with a non-empty varlist
\* of documented names, returns a list as long as varlist whose i-th element is the
\* value, under the restored parameters, of the tensor varlist[i] names.
C9_ResultFollowsVarlist ==
  ( /\ call.op = "restore_and_eval"
    /\ call.varlist # << >>
    /\ \A i \in DOMAIN call.varlist : call.varlist[i] \in DocumentedNames ) =>
    LET varmap == IF call.obj = StackName THEN StackVarmap ELSE UnitVarmap
    IN /\ Len(call.result) = Len(call.varlist)
       /\ \A i \in DOMAIN call.varlist :
            /\ call.varlist[i] \in DOMAIN varmap
            /\ call.result[i].tensor = varmap[call.varlist[i]]
            /\ call.result[i].values = The(files[call.path])

\* C10: restore_and_eval of the stack yields one evaluated value for each listed
\* name among "loss", "reconstruction_loss", "hidden_outputs" and "outputs".
C10_DocumentedNamesAccepted ==
  (call.op = "restore_and_eval" /\ call.obj = StackName) =>
    Len(call.result) >=
      Cardinality({ i \in DOMAIN call.varlist : call.varlist[i] \in DocumentedNames })

\* ------------------------------------------------------------ claims: eval
\* C11: eval(X, varlist) of a unit whose self.params were set by fit or restore,
\* with a non-empty varlist of names it knows, returns one value per name, computed
\* with the parameter values the unit holds.
C11_EvalUsesHeldParams ==
  ( /\ call.op = "eval"
    /\ ~IsNone(call.before)
    /\ call.varlist # << >>
    /\ \A i \in DOMAIN call.varlist : call.varlist[i] \in DOMAIN UnitVarmap ) =>
    /\ IsNone(call.raised)
    /\ Len(call.result) = Len(call.varlist)
    /\ \A i \in DOMAIN call.result :
         /\ call.result[i].tensor = UnitVarmap[call.varlist[i]]
         /\ call.result[i].values = The(call.before)

\* C12: output_weights() and output_biases() of a unit whose self.params were set by
\* fit or restore return the kernel and the bias of the dense layer built under the
\* name "<name>_outputs".
C12_OutputLayerParams ==
  (call.op \in { "output_weights", "output_biases" } /\ ~IsNone(call.before)) =>
    /\ IsNone(call.raised)
    /\ call.result =
         << The(call.before)[<< call.obj, IF call.op = "output_weights"
                                            THEN "_outputs/kernel:0"
                                            ELSE "_outputs/bias:0" >>] >>

\* ------------------------------------------------------- claims: denoising
\* C13: Gaussian noise or input dropout is applied to the input only in the runs of
\* the training op, which are fed training = True, and is applied there whenever the
\* unit was constructed with one of them; the checkpoint summary, the validation-loss
\* run, eval and restore_and_eval read the uncorrupted input; the reconstruction
\* loss always compares the output with the uncorrupted X.
C13_CorruptionOnlyInTraining ==
  \A r \in call.runs :
    /\ r.input # "X" => (r.training /\ r.fetch = "training_op")
    /\ r.fetch # "training_op" => (~r.training /\ r.input = "X")
    /\ (r.fetch = "training_op" /\ call.obj \in Units) =>
         (r.input # "X" <=> (~IsNone(noise_stddev) \/ ~IsNone(input_dropout_rate)))
    /\ r.target = "X"

\* A fit of a unit constructed with input dropout and no noise that has trained on
\* the dropped-out input and run a checkpoint on the uncorrupted one.
C13_Witness ==
  /\ IsNone(noise_stddev)
  /\ ~IsNone(input_dropout_rate)
  /\ call.op = "fit"
  /\ \E r \in call.runs : r.fetch = "training_op" /\ r.input = "dropout(X)"
  /\ \E r \in call.runs : r.fetch = "loss_on_valid_set" /\ r.input = "X"
  /\ \E r \in call.runs : r.fetch = "summary" /\ r.input = "X"

====
